---- MODULE Spec2Model ----
(***************************************************************************)
(* The request-to-stream pipeline of src/app/api/generateCode/route.ts:    *)
(* POST (validation, instruction composition, turn adaptation, the Gemini  *)
(* chat session, the ReadableStream relay and the error mapping) and       *)
(* getSystemPrompt.                                                        *)
(*                                                                         *)
(* Texts are sequences: a message content or a fragment text is a sequence *)
(* of characters, the system prompt is a sequence of lines, each line a    *)
(* record [indent, text].  String concatenation is \o.                     *)
(***************************************************************************)
EXTENDS Integers, Sequences, FiniteSets, TLC

\* ------------------------------------------------------------------ bounds
MaxTurns == 2        \* longest conversation a request carries
MaxFragments == 2    \* most fragments one provider stream yields
MaxCatalog == 2      \* most entries of the component catalog

RequestIds == {1, 2}
None == [none |-> TRUE]

\* ------------------------------------------------------- sequence helpers
RECURSIVE Concat(_)
Concat(ss) == IF ss = <<>> THEN <<>> ELSE Head(ss) \o Concat(Tail(ss))

Last(s) == s[Len(s)]

RECURSIVE SeqsUpTo(_, _)
SeqsUpTo(S, n) ==
  IF n = 0 THEN {<<>>}
  ELSE LET shorter == SeqsUpTo(S, n - 1)
       IN  shorter \cup {Append(s, x) : s \in {t \in shorter : Len(t) = n - 1}, x \in S}

SetMin(S) == CHOOSE m \in S : \A x \in S : m <= x

\* ------------------------------------------------------------- JSON values
\* A JSON value carries its type tag; the fields that hold data are named
\* after the type.
JNull == [t |-> "null"]
JAbsent == [t |-> "undefined"]
JBool(b) == [t |-> "boolean", bool |-> b]
JStr(s) == [t |-> "string", str |-> s]
JNum(n) == [t |-> "number", num |-> n]
JArr(a) == [t |-> "array", arr |-> a]
JObj(sh, ms) == [t |-> "object", shadcn |-> sh, messages |-> ms]
JTurn(role, content) == [t |-> "object", role |-> role, content |-> content]

\* ------------------------------------------------------------ zod schema
Issue(field, index, sub, code) ==
  [field |-> field, index |-> index, sub |-> sub, code |-> code]

Roles == {"user", "assistant"}

\* a turn schema whose role is any string
TurnIssues_anyRole(turn, i) ==
  IF turn.t # "object" THEN << Issue("messages", i, "", "invalid_type") >>
  ELSE (IF turn.role.t # "string"
          THEN << Issue("messages", i, "role", "invalid_type") >>
          ELSE << >>)
       \o
       (IF turn.content.t # "string"
          THEN << Issue("messages", i, "content", "invalid_type") >>
          ELSE << >>)

\* z.object({ role: z.enum(["user", "assistant"]), content: z.string() })
TurnIssues(turn, i) ==
  IF turn.t # "object" THEN << Issue("messages", i, "", "invalid_type") >>
  ELSE (IF turn.role.t # "string"
          THEN << Issue("messages", i, "role", "invalid_type") >>
          ELSE IF turn.role.str \notin Roles
                 THEN << Issue("messages", i, "role", "invalid_enum_value") >>
                 ELSE << >>)
       \o
       (IF turn.content.t # "string"
          THEN << Issue("messages", i, "content", "invalid_type") >>
          ELSE << >>)

RECURSIVE ArrayIssues(_, _)
ArrayIssues(arr, i) ==
  IF i > Len(arr) THEN << >>
  ELSE TurnIssues(arr[i], i) \o ArrayIssues(arr, i + 1)

\* a flag schema that accepts any value
ShadcnIssues_lenient(v) == << >>

\* z.boolean().default(false): an absent key takes the default
ShadcnIssues(v) ==
  IF v.t \in {"undefined", "boolean"} THEN << >>
  ELSE << Issue("shadcn", 0, "", "invalid_type") >>

\* an array schema that asks for at least one turn
MessagesIssues_nonEmpty(v) ==
  IF v.t # "array" THEN << Issue("messages", 0, "", "invalid_type") >>
  ELSE IF v.arr = << >> THEN << Issue("messages", 0, "", "too_small") >>
  ELSE ArrayIssues(v.arr, 1)

\* z.array(...)
MessagesIssues(v) ==
  IF v.t # "array" THEN << Issue("messages", 0, "", "invalid_type") >>
  ELSE ArrayIssues(v.arr, 1)

ZodIssues(json) ==
  IF json.t # "object" THEN << Issue("", 0, "", "invalid_type") >>
  ELSE ShadcnIssues(json.shadcn) \o MessagesIssues(json.messages)

\* the parsed data of a payload that passed the schema
ParsedTurn(turn) == [role |-> turn.role.str, content |-> turn.content.str]

\* a flag schema whose default is true
ParsedData_defaultTrue(json) ==
  [shadcn |-> IF json.shadcn.t = "boolean" THEN json.shadcn.bool ELSE TRUE,
   messages |-> [i \in 1..Len(json.messages.arr) |-> ParsedTurn(json.messages.arr[i])]]

\* result.data: the flag with its default, the turns as they came
ParsedData(json) ==
  [shadcn |-> IF json.shadcn.t = "boolean" THEN json.shadcn.bool ELSE FALSE,
   messages |-> [i \in 1..Len(json.messages.arr) |-> ParsedTurn(json.messages.arr[i])]]

safeParse(json) ==
  LET issues == ZodIssues(json)
  IN  IF issues = << >>
        THEN [success |-> TRUE, data |-> ParsedData(json), error |-> << >>]
        ELSE [success |-> FALSE, data |-> None, error |-> issues]
\* ------------------------------------------------------------------ texts
\* A multi-line string is a sequence of lines; its last line is the text
\* after the last newline (not yet terminated).  A whitespace-only line has
\* text "" and indent = its number of spaces.
L(indent, text) == [indent |-> indent, text |-> text]

Max(a, b) == IF a >= b THEN a ELSE b

\* a + b on multi-line strings: the last line of a continues with the first
\* line of b
StrCat(a, b) ==
  LET n == Len(a)
      joint == IF a[n].text = ""
                 THEN L(a[n].indent + b[1].indent, b[1].text)
                 ELSE a[n]
  IN  SubSeq(a, 1, n - 1) \o << joint >> \o Tail(b)

EmptyStr == << L(0, "") >>
Newline == << L(0, ""), L(0, "") >>

\* Array.prototype.join(sep) on multi-line strings
RECURSIVE Join(_, _)
Join(strs, sep) ==
  IF strs = << >> THEN EmptyStr
  ELSE IF Len(strs) = 1 THEN strs[1]
  ELSE StrCat(StrCat(strs[1], sep), Join(Tail(strs), sep))

\* dedent(string): strip the smallest indentation found on a line that is
\* indented and not blank from every line that starts with a space, then
\* trim the whole text
RECURSIVE TrimStart(_)
TrimStart(lines) ==
  IF lines = << >> THEN << >>
  ELSE IF Head(lines).text = "" THEN TrimStart(Tail(lines))
  ELSE << L(0, Head(lines).text) >> \o Tail(lines)

RECURSIVE TrimEnd(_)
TrimEnd(lines) ==
  IF lines = << >> THEN << >>
  ELSE IF Last(lines).text = "" THEN TrimEnd(SubSeq(lines, 1, Len(lines) - 1))
  ELSE lines

dedent(lines) ==
  LET indents == {lines[i].indent : i \in {j \in DOMAIN lines :
                      lines[j].indent > 0 /\ lines[j].text # ""}}
      sliced == IF indents = {} THEN lines
                ELSE [i \in DOMAIN lines |->
                        IF lines[i].indent > 0
                          THEN L(Max(0, lines[i].indent - SetMin(indents)), lines[i].text)
                          ELSE lines[i]]
  IN  TrimEnd(TrimStart(sliced))

\* TextEncoder.encode: UTF-8
Utf8(c) ==
  CASE c = "x" -> << 120 >>
    [] c = "y" -> << 121 >>
    [] c = "e'" -> << 195, 169 >>

\* an encoder that knows single-byte characters only
RECURSIVE encode_lossy(_)
encode_lossy(text) ==
  IF text = << >> THEN << >>
  ELSE (IF Head(text) = "e'" THEN << 63 >> ELSE Utf8(Head(text))) \o encode_lossy(Tail(text))

RECURSIVE encode(_)
encode(text) ==
  IF text = << >> THEN << >> ELSE Utf8(Head(text)) \o encode(Tail(text))

\* what the caller's text decoder makes of the body bytes
RECURSIVE decode(_)
decode(bytes) ==
  IF bytes = << >> THEN << >>
  ELSE IF Head(bytes) = 120 THEN << "x" >> \o decode(Tail(bytes))
  ELSE IF Head(bytes) = 121 THEN << "y" >> \o decode(Tail(bytes))
  ELSE IF Head(bytes) = 195 /\ Len(bytes) >= 2 /\ bytes[2] = 169
         THEN << "e'" >> \o decode(Tail(Tail(bytes)))
  ELSE << "?" >> \o decode(Tail(bytes))
\* ------------------------------------------------------------------ state
VARIABLES
  shadcnDocs,  \* the component catalog, a module-level import
  genAI,       \* the module-level provider client: [env, apiKey]
  req,         \* req[r]: the request POST was called with, None while r is free
  pc,          \* pc[r]: where the call of POST for r stands
  responses,   \* responses[r]: the Response objects POST constructed, in order
  escaped,     \* escaped[r]: the exception POST rejected with, or None
  logged,      \* logged[r]: the errors passed to console.error
  chats,       \* chats[r]: the history argument of every startChat call
  sends,       \* sends[r]: the argument of every sendMessageStream call
  source,      \* source[r]: the provider's fragment sequence: [status, emitted]
  relay,       \* relay[r]: where the stream's start(controller) stands
  sink,        \* sink[r]: the ReadableStream: [state, queue, closeRequested, cancelled]
  forwarded,   \* forwarded[r]: every chunk controller.enqueue accepted, in order
  delivered,   \* delivered[r]: the chunks the caller has read, in order
  anchor       \* the provider interaction of the first request that opened a session

procVars == << shadcnDocs, genAI >>
postVars == << req, pc, responses, escaped, logged >>
callVars == << chats, sends >>
streamVars == << source, relay, sink, forwarded, delivered >>
vars == << shadcnDocs, genAI, req, pc, responses, escaped, logged, chats, sends,
           source, relay, sink, forwarded, delivered, anchor >>

\* ---------------------------------------------------------------- catalog
Entry(name, importDocs, usageDocs) ==
  [name |-> name, importDocs |-> importDocs, usageDocs |-> usageDocs]

Button == Entry("Button", "import { Button } from '@/components/ui/button'", "<Button>Click</Button>")
Card == Entry("Card", "import { Card } from '@/components/ui/card'", "<Card>Body</Card>")

CatalogEntries == {Button, Card}
Catalogs == SeqsUpTo(CatalogEntries, MaxCatalog)

\* --------------------------------------------------------- getSystemPrompt
BaseRules ==
  << L(0, ""),
     L(4, "You are an expert frontend React engineer who is also a great UI/UX designer. Follow the instructions carefully:"),
     L(0, ""),
     L(4, "- Think carefully step by step."),
     L(4, "Here's an example of a well-structured component that follows these guidelines:"),
     L(0, ""),
     L(0, "import React from 'react';"),
     L(2, "return ("),
     L(4, "-You have to genrate the code for users prompt under 150 line"),
     L(4, "") >>

CatalogIntro ==
  << L(0, ""),
     L(4, "There are some prestyled components available for use. Please use your best judgement to use any of these components if the app calls for one."),
     L(0, ""),
     L(4, "Here are the components that are available, along with how to import them, and how to use them:"),
     L(4, "") >>

ComponentBlock(component) ==
  << L(0, ""),
     L(10, "<component>"),
     L(10, "<name>"),
     L(10, component.name),
     L(10, "</name>"),
     L(10, "<import-instructions>"),
     L(10, component.importDocs),
     L(10, "</import-instructions>"),
     L(10, "<usage-instructions>"),
     L(10, component.usageDocs),
     L(10, "</usage-instructions>"),
     L(10, "</component>"),
     L(8, "") >>

\* a catalog section that leaves the last entry out
CatalogSection_dropLast ==
  StrCat(StrCat(CatalogIntro,
                Join([i \in 1..(Len(shadcnDocs) - 1) |-> ComponentBlock(shadcnDocs[i])], Newline)),
         << L(0, ""), L(4, "") >>)

CatalogSection ==
  StrCat(StrCat(CatalogIntro,
                Join([i \in 1..Len(shadcnDocs) |-> ComponentBlock(shadcnDocs[i])], Newline)),
         << L(0, ""), L(4, "") >>)

ClosingRule ==
  << L(0, ""),
     L(4, "NO OTHER LIBRARIES (e.g. zod, hookform) ARE INSTALLED OR ABLE TO BE IMPORTED."),
     L(2, "") >>

\* a composer whose text is kept at module level and grows with every call
getSystemPrompt_accumulating(shadcn) ==
  LET rules == IF anchor = None THEN BaseRules ELSE StrCat(BaseRules, BaseRules)
      withCatalog == IF shadcn THEN StrCat(rules, CatalogSection) ELSE rules
  IN  dedent(StrCat(withCatalog, ClosingRule))

\* a composer that puts the catalog section at the end of the text
getSystemPrompt_catalogLast(shadcn) ==
  LET closed == StrCat(BaseRules, ClosingRule)
  IN  dedent(IF shadcn THEN StrCat(closed, CatalogSection) ELSE closed)

\* a composer that leaves the catalog section out whatever the flag
getSystemPrompt_flagless(shadcn) == dedent(StrCat(BaseRules, ClosingRule))

getSystemPrompt(shadcn) ==
  LET rules == BaseRules
      withCatalog == IF shadcn THEN StrCat(rules, CatalogSection) ELSE rules
  IN  dedent(StrCat(withCatalog, ClosingRule))
\* ------------------------------------------------------------ request bodies
Contents == {<< "a" >>, << "b" >>}

ValidTurns == {JTurn(JStr(role), JStr(content)) : role \in Roles, content \in Contents}
InvalidTurns == {JTurn(JStr("system"), JStr(<< "a" >>)), JTurn(JStr("user"), JNum(7))}

ShadcnValues == {JAbsent, JBool(TRUE), JBool(FALSE), JStr(<< "y", "e", "s" >>)}
MessagesValues ==
  {JAbsent, JStr(<< "a" >>)} \cup {JArr(c) : c \in SeqsUpTo(ValidTurns \cup InvalidTurns, MaxTurns)}

\* what await req.json() can produce: a rejection, or any JSON value
Bodies ==
  {[parsable |-> FALSE, json |-> JNull], [parsable |-> TRUE, json |-> JNull]}
  \cup {[parsable |-> TRUE, json |-> JObj(sh, ms)] : sh \in ShadcnValues, ms \in MessagesValues}

\* ------------------------------------------------------------------- POST
Suffix ==
  << " in less than 150 lines of code please only return code no text nothing just code  ",
     "\nPlease ONLY return code, NO backticks or language names." >>

\* a seed history that adds a model turn acknowledging the instruction
ChatHistory_acknowledged(systemPrompt) ==
  << [role |-> "user", parts |-> << [text |-> systemPrompt] >>],
     [role |-> "model", parts |-> << [text |-> << L(0, "Understood.") >>] >>] >>

\* the history startChat is given: one user entry, the composed instruction
ChatHistory(systemPrompt) ==
  << [role |-> "user", parts |-> << [text |-> systemPrompt] >>] >>

\* an adapter that appends the suffix to every turn, whoever wrote it
geminiMessages_suffixAll(messages) ==
  [i \in 1..Len(messages) |->
     [role |-> IF messages[i].role = "assistant" THEN "model" ELSE "user",
      parts |-> << [text |-> messages[i].content \o Suffix] >>]]

\* the turns in the provider's shape: assistant becomes model, and the text
\* of a user turn gets the suffix
geminiMessages(messages) ==
  [i \in 1..Len(messages) |->
     [role |-> IF messages[i].role = "assistant" THEN "model" ELSE "user",
      parts |-> << [text |-> IF messages[i].role = "user"
                               THEN messages[i].content \o Suffix
                               ELSE messages[i].content] >>]]

\* sending the first element
SentIndex_first(messages) == IF messages = << >> THEN 0 ELSE 1

\* the index of the element of geminiMessages that is sent
SentIndex(messages) == Len(messages)

\* a prompt kept at module level: while the request of the first slot is
\* being handled, its prompt is what every request sends
StreamRequest_shared(messages) ==
  LET first == IF req[1] # None /\ req[1].parsable /\ safeParse(req[1].json).success
                    /\ ParsedData(req[1].json).messages # << >>
                 THEN ParsedData(req[1].json).messages
                 ELSE messages
  IN  << [text |-> geminiMessages(first)[Len(first)].parts[1].text] >>

StreamRequest(messages) ==
  << [text |-> geminiMessages(messages)[SentIndex(messages)].parts[1].text] >>

ValidationResponse(error) ==
  [status |-> 422, body |-> [type |-> "text", content |-> error], headers |-> {}]

ErrorBody(error) == << [key |-> "error", value |-> "Failed to generate response"] >>

ErrorResponse(error) ==
  [status |-> 500, body |-> [type |-> "json", content |-> ErrorBody(error)], headers |-> {}]

\* a streaming response that leaves the caching header out
StreamResponse_cacheable ==
  [status |-> 200, body |-> [type |-> "stream", content |-> << >>],
   headers |-> {<< "Content-Type", "text/plain" >>}]

StreamResponse ==
  [status |-> 200, body |-> [type |-> "stream", content |-> << >>],
   headers |-> {<< "Content-Type", "text/plain" >>, << "Cache-Control", "no-cache" >>}]

SyntaxError == [name |-> "SyntaxError", message |-> "Unexpected token in JSON"]
TypeError == [name |-> "TypeError", message |-> "Cannot read properties of undefined"]
ProviderError(message) == [name |-> "GoogleGenerativeAIError", message |-> message]

\* how await chat.sendMessageStream(...) can end
CallOutcomes ==
  IF genAI.apiKey = ""
    THEN {[returns |-> FALSE, error |-> ProviderError("API key not valid")]}
    ELSE {[returns |-> TRUE, error |-> None],
          [returns |-> FALSE, error |-> ProviderError("quota exceeded")]}

NoSource == [status |-> "none", emitted |-> << >>]
NoSink == [state |-> "none", queue |-> << >>, closeRequested |-> FALSE, cancelled |-> FALSE]

\* the call of POST for r is over and its stream, if any, no longer runs
Free(r) == pc[r] \in {"idle", "returned", "threw"} /\ relay[r] # "awaiting"

\* the provider interaction of request r, as the anchor keeps it
Interaction(r) ==
  LET messages == ParsedData(req[r].json).messages
  IN  [shadcn |-> ParsedData(req[r].json).shadcn,
       seed |-> chats[r][1],
       turns |-> Len(messages),
       final |-> IF messages = << >> THEN << >> ELSE << Last(messages) >>,
       sends |-> sends[r],
       between |-> FALSE]

\* reading an array backwards by reversing it in place
AfterMap_reversed(array) == [i \in 1..Len(array) |-> array[Len(array) + 1 - i]]

\* the receiver of Array.prototype.map (shadcnDocs.map, messages.map) after
\* the call: map builds a new array and leaves the one it reads as it was
AfterMap(array) == array

\* a catch block that issues the streamed call a second time before it
\* gives up
Catch_retry(r, error) ==
  /\ logged' = [logged EXCEPT ![r] = Append(@, error)]
  /\ IF Len(sends[r]) = 1
       THEN /\ sends' = [sends EXCEPT ![r] = Append(@, Last(@))]
            /\ pc' = [pc EXCEPT ![r] = "sendMessageStream"]
            /\ UNCHANGED responses
       ELSE /\ responses' = [responses EXCEPT ![r] = Append(@, ErrorResponse(error))]
            /\ pc' = [pc EXCEPT ![r] = "returned"]
            /\ UNCHANGED sends

\* the catch block: what was thrown inside the try is logged and answered
\* with the generic 500; nothing is tried again
Catch(r, error) ==
  /\ logged' = [logged EXCEPT ![r] = Append(@, error)]
  /\ responses' = [responses EXCEPT ![r] = Append(@, ErrorResponse(error))]
  /\ pc' = [pc EXCEPT ![r] = "returned"]
  /\ UNCHANGED sends

\* a caller posts a request, its body one of `bodies`: POST runs up to
\* await req.json()
Receive(r, bodies) ==
  /\ pc[r] = "idle"
  /\ \E body \in bodies : req' = [req EXCEPT ![r] = body]
  /\ pc' = [pc EXCEPT ![r] = "json"]
  /\ UNCHANGED << responses, escaped, logged, anchor >>
  /\ UNCHANGED procVars
  /\ UNCHANGED callVars
  /\ UNCHANGED streamVars

\* await req.json() settles; POST runs on to await chat.sendMessageStream(...)
\* or to its return
POST_json(r) ==
  /\ pc[r] = "json"
  /\ IF ~req[r].parsable
       THEN /\ escaped' = [escaped EXCEPT ![r] = SyntaxError]
            /\ pc' = [pc EXCEPT ![r] = "threw"]
            /\ UNCHANGED << responses, logged, chats, sends >>
       ELSE LET result == safeParse(req[r].json)
            IN  IF ~result.success
                  THEN /\ responses' = [responses EXCEPT ![r] =
                                          Append(@, ValidationResponse(result.error))]
                       /\ pc' = [pc EXCEPT ![r] = "returned"]
                       /\ UNCHANGED << escaped, logged, chats, sends >>
                  ELSE LET messages == result.data.messages
                           systemPrompt == getSystemPrompt(result.data.shadcn)
                       IN  /\ chats' = [chats EXCEPT ![r] = Append(@, ChatHistory(systemPrompt))]
                           /\ IF SentIndex(messages) \notin DOMAIN messages
                                THEN /\ Catch(r, TypeError)
                                     /\ UNCHANGED escaped
                                ELSE /\ sends' = [sends EXCEPT ![r] =
                                                    Append(@, StreamRequest(messages))]
                                     /\ pc' = [pc EXCEPT ![r] = "sendMessageStream"]
                                     /\ UNCHANGED << escaped, logged, responses >>
  /\ LET mapped == req[r].parsable /\ safeParse(req[r].json).success
     IN  /\ shadcnDocs' = IF mapped /\ ParsedData(req[r].json).shadcn
                            THEN AfterMap(shadcnDocs) ELSE shadcnDocs
         /\ req' = IF mapped THEN [req EXCEPT ![r].json.messages.arr = AfterMap(@)] ELSE req
  /\ UNCHANGED << genAI, anchor >>
  /\ UNCHANGED streamVars
\* await chat.sendMessageStream(...) settles: the stream is created, its
\* start(controller) runs up to the first await of the for-await loop and the
\* 200 response is returned; or the catch block returns the 500 response
POST_sendMessageStream(r) ==
  /\ pc[r] = "sendMessageStream"
  /\ \E outcome \in CallOutcomes :
       IF outcome.returns
         THEN /\ source' = [source EXCEPT ![r] = [status |-> "open", emitted |-> << >>]]
              /\ sink' = [sink EXCEPT ![r] = [NoSink EXCEPT !.state = "readable"]]
              /\ relay' = [relay EXCEPT ![r] = "awaiting"]
              /\ responses' = [responses EXCEPT ![r] = Append(@, StreamResponse)]
              /\ pc' = [pc EXCEPT ![r] = "returned"]
              /\ UNCHANGED << logged, sends >>
         ELSE /\ Catch(r, outcome.error)
              /\ UNCHANGED << source, sink, relay >>
  /\ UNCHANGED << req, escaped, chats, forwarded, delivered, anchor >>
  /\ UNCHANGED procVars

\* ------------------------------------------------- ReadableStream controller
CanCloseOrEnqueue(s) == s.state = "readable" /\ ~s.closeRequested

\* an enqueue that puts the chunk in the queue twice
Enqueue_twice(s, chunk) == [s EXCEPT !.queue = Append(Append(@, chunk), chunk)]

\* controller.enqueue(chunk), when it is allowed
Enqueue(s, chunk) == [s EXCEPT !.queue = Append(@, chunk)]

\* a close that is dropped when chunks are still queued
Close_dropped(s) ==
  IF s.queue = << >> THEN [s EXCEPT !.state = "closed"] ELSE s

\* controller.close(), when it is allowed: the stream closes once its queue
\* is drained
Close(s) ==
  IF s.queue = << >> THEN [s EXCEPT !.state = "closed"]
  ELSE [s EXCEPT !.closeRequested = TRUE]

\* a rejection of start() that leaves the stream as it is
Error_swallow(s) == s

\* a rejection of start() that closes the stream
Error_close(s) == IF s.state = "readable" /\ ~s.closeRequested THEN Close(s) ELSE s

\* the promise start() returned rejects: controller.error(reason)
Error(s) ==
  IF s.state = "readable" THEN [s EXCEPT !.state = "errored", !.queue = << >>]
  ELSE s

\* ------------------------------------------------------------ Stream Relay
FragmentTexts == {<< >>, << "x" >>, << "e'" >>}

\* a relay that holds a fragment back until the next one has arrived
Forward_deferred(r, text) ==
  /\ source' = [source EXCEPT ![r].emitted = Append(@, text)]
  /\ IF source[r].emitted # << >> /\ Last(source[r].emitted) # << >>
          /\ CanCloseOrEnqueue(sink[r])
       THEN /\ sink' = [sink EXCEPT ![r] = Enqueue(@, encode(Last(source[r].emitted)))]
            /\ forwarded' = [forwarded EXCEPT ![r] = Append(@, encode(Last(source[r].emitted)))]
       ELSE UNCHANGED << sink, forwarded >>
  /\ UNCHANGED relay

\* what the relay does with one fragment: chunk.text(), the test of the text
\* and controller.enqueue
Forward(r, text) ==
  IF text # << >>
    THEN IF CanCloseOrEnqueue(sink[r])
           THEN /\ sink' = [sink EXCEPT ![r] = Enqueue(@, encode(text))]
                /\ forwarded' = [forwarded EXCEPT ![r] = Append(@, encode(text))]
                /\ source' = [source EXCEPT ![r].emitted = Append(@, text)]
                /\ UNCHANGED relay
           ELSE \* enqueue throws: the loop is left, which returns the iterator
                /\ relay' = [relay EXCEPT ![r] = "threw"]
                /\ source' = [source EXCEPT ![r] =
                                [status |-> "released", emitted |-> Append(@.emitted, text)]]
                /\ sink' = [sink EXCEPT ![r] = Error(@)]
                /\ UNCHANGED forwarded
    ELSE /\ source' = [source EXCEPT ![r].emitted = Append(@, text)]
         /\ UNCHANGED << relay, sink, forwarded >>

\* one turn of `for await (const chunk of result.stream)`: the next fragment
\* arrives and is handled
start_chunk(r) ==
  /\ relay[r] = "awaiting"
  /\ Len(source[r].emitted) < MaxFragments
  /\ \E text \in FragmentTexts : Forward(r, text)
  /\ UNCHANGED << delivered, anchor >>
  /\ UNCHANGED procVars
  /\ UNCHANGED postVars
  /\ UNCHANGED callVars

\* the fragment sequence ends: controller.close()
start_done(r) ==
  /\ relay[r] = "awaiting"
  /\ source' = [source EXCEPT ![r].status = "done"]
  /\ IF CanCloseOrEnqueue(sink[r])
       THEN /\ sink' = [sink EXCEPT ![r] = Close(@)]
            /\ relay' = [relay EXCEPT ![r] = "finished"]
       ELSE /\ sink' = [sink EXCEPT ![r] = Error(@)]
            /\ relay' = [relay EXCEPT ![r] = "threw"]
  /\ UNCHANGED << forwarded, delivered, anchor >>
  /\ UNCHANGED procVars
  /\ UNCHANGED postVars
  /\ UNCHANGED callVars

\* a failure before the first fragment that is answered with the 500
start_throw_caught(r) ==
  /\ relay[r] = "awaiting"
  /\ source' = [source EXCEPT ![r].status = "failed"]
  /\ relay' = [relay EXCEPT ![r] = "threw"]
  /\ sink' = [sink EXCEPT ![r] = Error(@)]
  /\ IF source[r].emitted = << >>
       THEN /\ logged' = [logged EXCEPT ![r] = Append(@, ProviderError("stream failed"))]
            /\ responses' = [responses EXCEPT ![r] =
                               Append(@, ErrorResponse(ProviderError("stream failed")))]
       ELSE UNCHANGED << logged, responses >>
  /\ UNCHANGED << req, pc, escaped, forwarded, delivered, anchor >>
  /\ UNCHANGED procVars
  /\ UNCHANGED callVars

\* the fragment sequence throws: start() rejects and the stream is errored
start_throw(r) ==
  /\ relay[r] = "awaiting"
  /\ source' = [source EXCEPT ![r].status = "failed"]
  /\ relay' = [relay EXCEPT ![r] = "threw"]
  /\ sink' = [sink EXCEPT ![r] = Error(@)]
  /\ UNCHANGED << forwarded, delivered, anchor >>
  /\ UNCHANGED procVars
  /\ UNCHANGED postVars
  /\ UNCHANGED callVars

\* ------------------------------------------------------------------ caller
\* a queue read from its newest end
Read_newest(r) ==
  /\ sink[r].state = "readable"
  /\ sink[r].queue # << >>
  /\ delivered' = [delivered EXCEPT ![r] = Append(@, Last(sink[r].queue))]
  /\ sink' = [sink EXCEPT ![r] =
                [@ EXCEPT !.queue = SubSeq(@, 1, Len(@) - 1),
                          !.state = IF sink[r].closeRequested /\ Len(sink[r].queue) = 1
                                      THEN "closed" ELSE @]]
  /\ UNCHANGED << source, relay, forwarded, anchor >>
  /\ UNCHANGED procVars
  /\ UNCHANGED postVars
  /\ UNCHANGED callVars

\* the caller reads the next chunk of the response body
Read(r) ==
  /\ sink[r].state = "readable"
  /\ sink[r].queue # << >>
  /\ delivered' = [delivered EXCEPT ![r] = Append(@, Head(sink[r].queue))]
  /\ sink' = [sink EXCEPT ![r] =
                [@ EXCEPT !.queue = Tail(@),
                          !.state = IF sink[r].closeRequested /\ Tail(sink[r].queue) = << >>
                                      THEN "closed" ELSE @]]
  /\ UNCHANGED << source, relay, forwarded, anchor >>
  /\ UNCHANGED procVars
  /\ UNCHANGED postVars
  /\ UNCHANGED callVars

\* the caller disconnects: the stream is cancelled; the underlying source has
\* no cancel() method
Cancel(r) ==
  /\ sink[r].state = "readable"
  /\ sink' = [sink EXCEPT ![r] =
                [@ EXCEPT !.state = "closed", !.queue = << >>, !.cancelled = TRUE]]
  /\ UNCHANGED << source, relay, forwarded, delivered, anchor >>
  /\ UNCHANGED procVars
  /\ UNCHANGED postVars
  /\ UNCHANGED callVars

\* ---------------------------------------------------------- specification
DefaultCatalog == << Button, Card >>

Idle(r) ==
  /\ req' = [req EXCEPT ![r] = None]
  /\ pc' = [pc EXCEPT ![r] = "idle"]
  /\ responses' = [responses EXCEPT ![r] = << >>]
  /\ escaped' = [escaped EXCEPT ![r] = None]
  /\ logged' = [logged EXCEPT ![r] = << >>]
  /\ chats' = [chats EXCEPT ![r] = << >>]
  /\ sends' = [sends EXCEPT ![r] = << >>]
  /\ source' = [source EXCEPT ![r] = NoSource]
  /\ relay' = [relay EXCEPT ![r] = "none"]
  /\ sink' = [sink EXCEPT ![r] = NoSink]
  /\ forwarded' = [forwarded EXCEPT ![r] = << >>]
  /\ delivered' = [delivered EXCEPT ![r] = << >>]

\* the request is over: everything scoped to it is dropped
Release(r) ==
  /\ Free(r)
  /\ pc[r] # "idle"
  /\ Idle(r)
  /\ UNCHANGED anchor
  /\ UNCHANGED procVars

\* the same, keeping the provider interaction of the first request that had
\* one, and whether another request had one after it
ReleaseRecorded(r) ==
  /\ Free(r)
  /\ pc[r] # "idle"
  /\ Idle(r)
  /\ anchor' = IF chats[r] = << >> THEN anchor
               ELSE IF anchor = None THEN Interaction(r)
               ELSE [anchor EXCEPT !.between = TRUE]
  /\ UNCHANGED procVars

Started ==
  /\ req = [r \in RequestIds |-> None]
  /\ pc = [r \in RequestIds |-> "idle"]
  /\ responses = [r \in RequestIds |-> << >>]
  /\ escaped = [r \in RequestIds |-> None]
  /\ logged = [r \in RequestIds |-> << >>]
  /\ chats = [r \in RequestIds |-> << >>]
  /\ sends = [r \in RequestIds |-> << >>]
  /\ source = [r \in RequestIds |-> NoSource]
  /\ relay = [r \in RequestIds |-> "none"]
  /\ sink = [r \in RequestIds |-> NoSink]
  /\ forwarded = [r \in RequestIds |-> << >>]
  /\ delivered = [r \in RequestIds |-> << >>]
  /\ anchor = None

\* process.env.GOOGLE_API_KEY: undefined, or the key of a provider account
Environments == {[defined |-> FALSE, value |-> ""], [defined |-> TRUE, value |-> "key"]}

\* a client that falls back on a built-in key
GoogleGenerativeAI_fallback(env) ==
  [env |-> env, apiKey |-> IF env.defined /\ env.value # "" THEN env.value ELSE "key"]

\* new GoogleGenerativeAI(process.env.GOOGLE_API_KEY || ""): the client is
\* built whatever the environment, it keeps the key or the empty string
GoogleGenerativeAI(env) ==
  [env |-> env, apiKey |-> IF env.defined /\ env.value # "" THEN env.value ELSE ""]

ClientHandles == {GoogleGenerativeAI(env) : env \in Environments}

Init ==
  /\ shadcnDocs = DefaultCatalog
  /\ genAI \in ClientHandles
  /\ Started

\* the same with a deadline on the provider: a stream still awaiting a
\* fragment is errored when the deadline passes
Handle_deadline(r) ==
  \/ POST_json(r)
  \/ POST_sendMessageStream(r)
  \/ start_chunk(r)
  \/ start_done(r)
  \/ start_throw(r)
  \/ Read(r)
  \/ Cancel(r)
  \/ /\ relay[r] = "awaiting"
     /\ relay' = [relay EXCEPT ![r] = "threw"]
     /\ sink' = [sink EXCEPT ![r] = Error(@)]
     /\ UNCHANGED << source, forwarded, delivered, anchor >>
     /\ UNCHANGED procVars
     /\ UNCHANGED postVars
     /\ UNCHANGED callVars

\* what POST and the stream do with request r, and what its caller does
Handle(r) ==
  \/ POST_json(r)
  \/ POST_sendMessageStream(r)
  \/ start_chunk(r)
  \/ start_done(r)
  \/ start_throw(r)
  \/ Read(r)
  \/ Cancel(r)

\* requests are handled one after the other
Serial == {1}

Next ==
  \E r \in Serial :
    \/ Receive(r, Bodies)
    \/ Handle(r)
    \/ Release(r)

Spec == Init /\ [][Next]_vars

\* Requests one after the other, the first provider interaction kept: the
\* conversations vary in length and in every turn.
SeqConversations ==
  {<< >>}
  \cup {Append(c, last) :
          c \in SeqsUpTo({JTurn(JStr("user"), JStr(<< "b" >>)),
                          JTurn(JStr("assistant"), JStr(<< "a" >>))}, MaxTurns - 1),
          last \in ValidTurns}

SeqBodies ==
  {[parsable |-> TRUE, json |-> JObj(JBool(sh), JArr(c))] :
      sh \in BOOLEAN, c \in SeqConversations}

NextSeq ==
  \E r \in Serial :
    \/ Receive(r, SeqBodies)
    \/ Handle(r)
    \/ ReleaseRecorded(r)

SpecSeq == Init /\ [][NextSeq]_vars

\* The composer over every catalog: the requests are single-turn.
ComposeBodies ==
  {[parsable |-> TRUE,
    json |-> JObj(sh, JArr(<< JTurn(JStr("user"), JStr(<< "a" >>)) >>))] :
      sh \in {JAbsent, JBool(TRUE), JBool(FALSE)}}

InitCompose ==
  /\ shadcnDocs \in Catalogs
  /\ genAI \in ClientHandles
  /\ Started

NextCompose ==
  \E r \in Serial :
    \/ Receive(r, ComposeBodies)
    \/ Handle(r)
    \/ Release(r)

SpecCompose == InitCompose /\ [][NextCompose]_vars

\* Two callers at once: the edge runtime runs one POST per request and
\* interleaves them at their awaits.  The first caller leaves the flag out;
\* the second sends the same conversation with the flag false, or another
\* conversation, ending on an assistant turn, with the flag true.
FirstCallerBodies ==
  {[parsable |-> TRUE, json |-> JObj(sh, JArr(<< JTurn(JStr("user"), JStr(<< "a" >>)) >>))] :
      sh \in {JAbsent}}

SecondCallerBodies ==
  {[parsable |-> TRUE, json |-> JObj(JBool(FALSE), JArr(c))] :
      c \in {<< JTurn(JStr("user"), JStr(<< "a" >>)) >>}}
  \cup
  {[parsable |-> TRUE, json |-> JObj(JBool(TRUE), JArr(c))] :
      c \in {<< JTurn(JStr("user"), JStr(<< "a" >>)),
                JTurn(JStr("assistant"), JStr(<< "b" >>)) >>}}

ConcBodies(r) == IF r = 1 THEN FirstCallerBodies ELSE SecondCallerBodies

NextConc ==
  \E r \in RequestIds :
    \/ Receive(r, ConcBodies(r))
    \/ Handle(r)
    \/ Release(r)

SpecConc == Init /\ [][NextConc]_vars

\* Progress: the body of the request arrives, the provider settles the call,
\* its fragment sequence is finite, and the caller reads what is queued for
\* as long as the body is open.  A request is over, for such a caller, once
\* its body is no longer readable.
LiveBodies ==
  {[parsable |-> FALSE, json |-> JNull]}
  \cup {[parsable |-> TRUE, json |-> JObj(sh, JArr(c))] :
          sh \in {JAbsent, JStr(<< "y", "e", "s" >>)},
          c \in {<< >>, << JTurn(JStr("user"), JStr(<< "a" >>)) >>}}

ReleaseSettled(r) ==
  /\ sink[r].state # "readable"
  /\ Release(r)

NextLive ==
  \E r \in Serial :
    \/ Receive(r, LiveBodies)
    \/ Handle(r)
    \/ ReleaseSettled(r)

Fairness ==
  \A r \in Serial :
    /\ WF_vars(POST_json(r))
    /\ WF_vars(POST_sendMessageStream(r))
    /\ WF_vars(start_chunk(r) \/ start_done(r) \/ start_throw(r))
    /\ WF_vars(Read(r))

SpecLive == Init /\ [][NextLive]_vars /\ Fairness
\* ------------------------------------------------------- reading the state
Parsable(r) == req[r] # None /\ req[r].parsable
Valid(r) == Parsable(r) /\ safeParse(req[r].json).success
Messages(r) == ParsedData(req[r].json).messages
Flag(r) == ParsedData(req[r].json).shadcn
Seed(r) == chats[r][1][1].parts[1].text

\* the schema of the endpoint, stated on the JSON value itself
SchemaHolds(json) ==
  /\ json.t = "object"
  /\ json.shadcn.t \in {"undefined", "boolean"}
  /\ json.messages.t = "array"
  /\ \A i \in DOMAIN json.messages.arr :
       /\ json.messages.arr[i].role.t = "string"
       /\ json.messages.arr[i].role.str \in {"user", "assistant"}
       /\ json.messages.arr[i].content.t = "string"

RECURSIVE NonEmpty(_)
NonEmpty(texts) ==
  IF texts = << >> THEN << >>
  ELSE IF Head(texts) = << >> THEN NonEmpty(Tail(texts))
  ELSE << Head(texts) >> \o NonEmpty(Tail(texts))

\* the catalog entries a text serialises, read back from its lines
RECURSIVE ParseBlocks(_, _)
ParseBlocks(lines, i) ==
  IF i > Len(lines) THEN << >>
  ELSE IF lines[i].text = "<component>" /\ i + 10 <= Len(lines)
         THEN << Entry(lines[i + 2].text, lines[i + 5].text, lines[i + 8].text) >>
              \o ParseBlocks(lines, i + 1)
         ELSE ParseBlocks(lines, i + 1)

Blocks(text) == ParseBlocks(text, 1)

\* -------------------------------------------------------------------- C1
\* C1: for a valid request with a non-empty messages sequence whose provider
\* call and fragment sequence do not fail, POST constructs exactly one
\* response, the 200 streaming one; every non-empty fragment the provider
\* emitted was forwarded once, in order; what the caller has read followed by
\* what waits in the sink is the concatenation of the fragments emitted; and
\* once the sequence has ended and the body is read to its end, the body is
\* the exact concatenation of all fragments.
C1_Concatenation ==
  \A r \in RequestIds :
    (Valid(r) /\ Messages(r) # << >> /\ pc[r] = "returned" /\ logged[r] = << >>) =>
      /\ responses[r] = << StreamResponse >>
      /\ (source[r].status \in {"open", "done"} /\ ~sink[r].cancelled) =>
           /\ forwarded[r] = [i \in 1..Len(NonEmpty(source[r].emitted)) |->
                                encode(NonEmpty(source[r].emitted)[i])]
           /\ Concat(delivered[r]) \o Concat(sink[r].queue) = encode(Concat(source[r].emitted))
      /\ (source[r].status = "done" /\ sink[r].state = "closed" /\ ~sink[r].cancelled) =>
           decode(Concat(delivered[r])) = Concat(source[r].emitted)

C1_Witness ==
  \E r \in RequestIds :
    /\ Valid(r) /\ Messages(r) # << >>
    /\ responses[r] = << StreamResponse >>
    /\ source[r].status = "done" /\ sink[r].state = "closed" /\ ~sink[r].cancelled
    /\ Len(delivered[r]) = 2 /\ delivered[r][1] # delivered[r][2]
    /\ Len(Concat(delivered[r])) = 3

\* -------------------------------------------------------------------- C2
\* C2: a payload that fails the schema gets the 422 response whose body is
\* the validation description, and for such a request no session is opened,
\* no streamed completion is requested and no stream is created; no request
\* has touched the provider before its validation is done.
C2_ValidationFirst ==
  \A r \in RequestIds :
    /\ (pc[r] = "json") =>
         /\ chats[r] = << >> /\ sends[r] = << >>
         /\ source[r] = NoSource /\ sink[r] = NoSink /\ relay[r] = "none"
    /\ (Parsable(r) /\ ~SchemaHolds(req[r].json) /\ pc[r] # "json") =>
         /\ pc[r] = "returned"
         /\ Len(responses[r]) = 1
         /\ responses[r][1].status = 422
         /\ responses[r][1].body.type = "text"
         /\ responses[r][1].body.content = ZodIssues(req[r].json)
         /\ responses[r][1].body.content # << >>
         /\ chats[r] = << >> /\ sends[r] = << >>
         /\ source[r] = NoSource /\ sink[r] = NoSink /\ relay[r] = "none"

C2_Witness ==
  \E r \in RequestIds :
    /\ Parsable(r) /\ req[r].json.t = "object"
    /\ req[r].json.messages.t = "array"
    /\ Len(req[r].json.messages.arr) = 2
    /\ req[r].json.messages.arr[1].role.str = "system"
    /\ req[r].json.shadcn.t = "string"
    /\ pc[r] = "returned"
    /\ responses[r][1].status = 422
    /\ Len(responses[r][1].body.content) = 2

C4_FailureBeforeFirstFragment ==
  \A r \in RequestIds :
    /\ (pc[r] = "returned" /\ logged[r] # << >>) =>
         /\ responses[r] = << ErrorResponse(logged[r][1]) >>
         /\ responses[r][1].body.content[1].value # logged[r][1].message
    /\ (source[r].status = "failed" /\ source[r].emitted = << >>) =>
         /\ Len(responses[r]) = 1
         /\ responses[r][1].status = 500

\* -------------------------------------------------------------------- C5
\* C5: once the fragment sequence has failed after at least one fragment,
\* the only response is the 200 one constructed before, the relay has
\* stopped, the sink is errored (or was cancelled by the caller) with nothing
\* left to read, and from then on no chunk is forwarded to the sink and none
\* reaches the caller.
FailedMidStream(r) == source[r].status = "failed" /\ source[r].emitted # << >>

C5_NoSecondResponse ==
  /\ [](\A r \in RequestIds :
          FailedMidStream(r) =>
            /\ responses[r] = << StreamResponse >>
            /\ relay[r] = "threw"
            /\ sink[r].state = "errored" \/ sink[r].cancelled
            /\ sink[r].queue = << >>)
  /\ [][\A r \in RequestIds :
          (FailedMidStream(r) /\ pc'[r] # "idle") =>
            /\ responses'[r] = responses[r]
            /\ forwarded'[r] = forwarded[r]
            /\ delivered'[r] = delivered[r]
            /\ sink'[r] = sink[r]]_vars

C5_Witness ==
  \E r \in RequestIds :
    /\ FailedMidStream(r)
    /\ forwarded[r] # << >> /\ delivered[r] # << >>
    /\ Len(forwarded[r]) > Len(delivered[r])
    /\ sink[r].state = "errored"

\* -------------------------------------------------------------------- C6
\* C6: when the fragment sequence has failed, the sink is not closed
\* normally and no close is pending: it is errored, unless the caller had
\* cancelled it before.
C6_ErroredNotTruncated ==
  \A r \in RequestIds :
    source[r].status = "failed" =>
      /\ ~sink[r].closeRequested
      /\ sink[r].state = "closed" => sink[r].cancelled
      /\ ~sink[r].cancelled => sink[r].state = "errored"

C6_Witness ==
  \E r \in RequestIds :
    /\ source[r].status = "failed"
    /\ Len(source[r].emitted) = 1 /\ forwarded[r] # << >>
    /\ sink[r].state = "errored" /\ ~sink[r].cancelled

\* -------------------------------------------------------------------- C7
\* C7: no call of POST ends with an exception: every call that is over has
\* returned a response, with status 422 or 500 when it failed.
C7_NothingEscapes ==
  \A r \in RequestIds :
    /\ pc[r] # "threw"
    /\ escaped[r] = None
    /\ pc[r] = "returned" => Len(responses[r]) = 1

\* -------------------------------------------------------------------- C8
\* C8: the instruction composed for a request with the flag false holds no
\* catalog block, and the one composed with the flag true holds the blocks of
\* the catalog's entries, one per entry, in the catalog's order.
C8_CatalogBlocks ==
  /\ Blocks(getSystemPrompt(FALSE)) = << >>
  /\ Blocks(getSystemPrompt(TRUE)) = shadcnDocs
  /\ \A r \in RequestIds :
       chats[r] # << >> => Blocks(Seed(r)) = IF Flag(r) THEN shadcnDocs ELSE << >>

C8_Witness ==
  \E r \in RequestIds :
    /\ chats[r] # << >> /\ Flag(r)
    /\ Len(shadcnDocs) = 2 /\ shadcnDocs[1] # shadcnDocs[2]
    /\ Blocks(Seed(r)) = shadcnDocs

\* -------------------------------------------------------------------- C9
\* C9: a request is composed the same instruction as the first request that
\* opened a session whenever the two have the same flag, whatever their
\* conversations and whatever requests were handled between the two.
C9_FlagOnly ==
  \A r \in RequestIds :
    (chats[r] # << >> /\ anchor # None /\ anchor.shadcn = Flag(r)) =>
      chats[r][1] = anchor.seed

C9_Witness ==
  \E r \in RequestIds :
    /\ chats[r] # << >> /\ anchor # None /\ anchor.shadcn = Flag(r)
    /\ anchor.between
    /\ anchor.turns # Len(Messages(r))
    /\ Messages(r) # << >> /\ anchor.final # << Last(Messages(r)) >>
    /\ chats[r][1] = anchor.seed

\* -------------------------------------------------------------------- C10
\* C10: at most one forwarded fragment waits unread in the output sink.
C10_OneInFlight ==
  \A r \in RequestIds : Len(sink[r].queue) <= 1

\* -------------------------------------------------------------------- C11
\* C11: once the caller has cancelled the output sink, the relay asks the
\* source for no further fragment: a fragment that arrives after the
\* cancellation is the last one, the relay does not go back to awaiting the
\* next.
C11_StopsPulling ==
  [][\A r \in RequestIds :
       (sink[r].cancelled /\ pc'[r] # "idle"
          /\ Len(source'[r].emitted) > Len(source[r].emitted)) =>
         relay'[r] # "awaiting"]_vars

\* -------------------------------------------------------------------- C12
\* C12: nothing is tried again.  A request opens at most one session and
\* issues the streamed call at most once, and once the call has failed, the
\* fragment sequence has failed or ended, or the relay has stopped, the call
\* is not issued again and the relay does not start over on the sequence.
C12_NoRetry ==
  /\ [](\A r \in RequestIds : Len(chats[r]) <= 1 /\ Len(sends[r]) <= 1)
  /\ [][\A r \in RequestIds :
          pc'[r] # "idle" =>
            /\ logged[r] # << >> =>
                 (sends'[r] = sends[r] /\ pc'[r] = pc[r] /\ source'[r] = source[r])
            /\ relay[r] \in {"finished", "threw"} =>
                 (sends'[r] = sends[r] /\ relay'[r] = relay[r] /\ source'[r] = source[r])
            /\ source[r].status # "none" =>
                 (source'[r].status # "none"
                    /\ Len(source'[r].emitted) >= Len(source[r].emitted))]_vars

C12_Witness ==
  \E r \in RequestIds :
    /\ Len(sends[r]) = 1
    /\ relay[r] = "threw" /\ source[r].status = "failed"
    /\ sink[r].cancelled
    /\ source[r].emitted # << >>

\* -------------------------------------------------------------------- C13
\* C13: with the provider credential absent from the environment the client
\* is still built, and no request is answered 200, gets an output sink or
\* streams a byte; every request that reaches the streamed call fails
\* there with a provider error and is answered the generic 500.
C13_NoCredential ==
  ~genAI.env.defined =>
    \A r \in RequestIds :
      /\ \A i \in DOMAIN responses[r] : responses[r][i].status # 200
      /\ source[r] = NoSource /\ sink[r] = NoSink /\ relay[r] = "none"
      /\ forwarded[r] = << >> /\ delivered[r] = << >>
      /\ (sends[r] # << >> /\ pc[r] = "returned") =>
           /\ logged[r] = << ProviderError("API key not valid") >>
           /\ responses[r] = << ErrorResponse(logged[r][1]) >>

C13_Witness ==
  /\ ~genAI.env.defined
  /\ \E r \in RequestIds :
       /\ sends[r] # << >> /\ pc[r] = "returned"
       /\ responses[r] # << >> /\ responses[r][1].status = 500

\* -------------------------------------------------------------------- C14
\* C14: with two requests in flight at once, each request's session is
\* seeded with the instruction composed for its own flag, its outbound prompt
\* is made of its own final turn, and what it forwards and delivers is made
\* of the fragments of its own provider stream, in their order.
OwnPrompt(r) ==
  LET final == Last(Messages(r))
  IN  IF final.role = "user" THEN final.content \o Suffix ELSE final.content

OwnBytes(r) ==
  [i \in 1..Len(NonEmpty(source[r].emitted)) |-> encode(NonEmpty(source[r].emitted)[i])]

IsPrefix(s, t) == Len(s) <= Len(t) /\ s = SubSeq(t, 1, Len(s))

C14_NoInterference ==
  /\ [](\A r \in RequestIds :
          /\ sends[r] # << >> => sends[r] = << << [text |-> OwnPrompt(r)] >> >>
          /\ IsPrefix(forwarded[r], OwnBytes(r))
          /\ IsPrefix(delivered[r] \o sink[r].queue, forwarded[r]))
  /\ [](\A r, q \in RequestIds :
          (chats[r] # << >> /\ chats[q] # << >>) =>
            (chats[r] = chats[q] <=> Flag(r) = Flag(q)))
  /\ [][\A r \in RequestIds :
          (chats'[r] # chats[r] \/ req'[r] # req[r]) =>
            \/ chats'[r] = << >>
            \/ chats'[r] = << ChatHistory(getSystemPrompt(ParsedData(req'[r].json).shadcn)) >>]_vars

\* both in flight with different flags and different prompts, each having
\* forwarded from a stream that differs from the other's
C14_Witness ==
  /\ relay[1] = "awaiting" /\ relay[2] = "awaiting"
  /\ Flag(1) # Flag(2)
  /\ sends[1] # sends[2]
  /\ forwarded[1] # << >> /\ forwarded[2] # << >>
  /\ forwarded[1] # forwarded[2]
  /\ delivered[1] # << >> /\ delivered[2] # << >>

\* -------------------------------------------------------------------- C15
\* C15: a request that leaves the catalog flag out is handled as the request
\* with the same conversation and the flag false: both pass validation with
\* the same parsed data, their sessions get the same seed instruction and
\* the same outbound prompt is sent.
FlagOmitted(r) == Parsable(r) /\ req[r].json.shadcn = JAbsent
FlagFalse(r) == Parsable(r) /\ req[r].json.shadcn = JBool(FALSE)

C15_DefaultFalse ==
  \A r, q \in RequestIds :
    (FlagOmitted(r) /\ FlagFalse(q) /\ req[r].json.messages = req[q].json.messages) =>
      /\ Valid(r) /\ Valid(q)
      /\ safeParse(req[r].json).data = safeParse(req[q].json).data
      /\ (chats[r] # << >> /\ chats[q] # << >>) => chats[r] = chats[q]
      /\ (sends[r] # << >> /\ sends[q] # << >>) => sends[r] = sends[q]

C15_Witness ==
  \E r, q \in RequestIds :
    /\ FlagOmitted(r) /\ FlagFalse(q) /\ req[r].json.messages = req[q].json.messages
    /\ chats[r] # << >> /\ chats[q] = chats[r]
    /\ sends[r] # << >> /\ sends[q] = sends[r]
    /\ relay[r] = "awaiting" /\ relay[q] = "awaiting"

\* -------------------------------------------------------------------- C16
\* C16 as stated: whatever the catalog, the instruction composed with the
\* flag on has strictly more catalog-entry blocks than the one composed with
\* the flag off.
C16_StrictlyMore ==
  \A r \in RequestIds :
    (chats[r] # << >> /\ Flag(r)) =>
      Len(Blocks(Seed(r))) > Len(Blocks(getSystemPrompt(FALSE)))

\* C16: the instruction composed with the flag on has one catalog-entry block
\* per entry of the catalog and the one composed with the flag off has none:
\* never fewer, and strictly more exactly when the catalog has an entry.
C16_BlockCounts ==
  \A r \in RequestIds :
    (chats[r] # << >> /\ Flag(r)) =>
      LET on == Len(Blocks(Seed(r)))
          off == Len(Blocks(getSystemPrompt(FALSE)))
      IN  /\ on = Len(shadcnDocs)
          /\ off = 0
          /\ on >= off
          /\ on > off <=> shadcnDocs # << >>

C16_Witness ==
  \E r \in RequestIds :
    /\ chats[r] # << >> /\ Flag(r)
    /\ Len(shadcnDocs) = 1
    /\ Len(Blocks(Seed(r))) = 1
    /\ Len(Blocks(getSystemPrompt(FALSE))) = 0

\* -------------------------------------------------------------------- C17
\* C17: a response has status 200, 422 or 500.  A 200 response declares
\* Content-Type text/plain and Cache-Control no-cache and its body is the
\* stream fed by the relay; a 422 or 500 response has a body that is not a
\* stream, and no output sink exists for its request.
HeaderOf(response, key) == {h[2] : h \in {g \in response.headers : g[1] = key}}

C17_ResponseShapes ==
  \A r \in RequestIds :
    \A i \in DOMAIN responses[r] :
      LET response == responses[r][i]
      IN  /\ response.status \in {200, 422, 500}
          /\ response.status = 200 =>
               /\ HeaderOf(response, "Content-Type") = {"text/plain"}
               /\ HeaderOf(response, "Cache-Control") = {"no-cache"}
               /\ response.body.type = "stream"
               /\ sink[r].state # "none"
               /\ logged[r] = << >>
          /\ response.status \in {422, 500} =>
               /\ response.body.type \in {"text", "json"}
               /\ sink[r] = NoSink /\ source[r] = NoSource
               /\ forwarded[r] = << >> /\ delivered[r] = << >>

C17_Witness ==
  \E r \in RequestIds :
    /\ responses[r] # << >> /\ responses[r][1].status = 200
    /\ << "Cache-Control", "no-cache" >> \in responses[r][1].headers
    /\ sink[r].state = "closed" /\ ~sink[r].cancelled
    /\ Len(delivered[r]) = 2

\* -------------------------------------------------------------------- C18
\* C18: in the step in which a fragment arrives, the relay puts the encoding
\* of its text in the sink once if the text is non-empty and the sink still
\* accepts chunks, and puts nothing otherwise; nothing is forwarded in any
\* other step, nor once the sink is closed, cancelled or asked to close.
\* When the source ends normally on an open sink the relay closes it, and a
\* closed sink stays closed and a finished relay stays finished.
C18_ForwardOnceThenClose ==
  [][\A r \in RequestIds :
       pc'[r] # "idle" =>
         /\ IF Len(source'[r].emitted) > Len(source[r].emitted)
              THEN /\ source'[r].emitted = Append(source[r].emitted, Last(source'[r].emitted))
                   /\ IF Last(source'[r].emitted) # << >> /\ CanCloseOrEnqueue(sink[r])
                        THEN /\ forwarded'[r] =
                                  Append(forwarded[r], encode(Last(source'[r].emitted)))
                             /\ sink'[r].queue =
                                  Append(sink[r].queue, encode(Last(source'[r].emitted)))
                        ELSE /\ forwarded'[r] = forwarded[r]
                             /\ Len(sink'[r].queue) <= Len(sink[r].queue)
              ELSE /\ forwarded'[r] = forwarded[r]
                   /\ Len(sink'[r].queue) <= Len(sink[r].queue)
         /\ ~CanCloseOrEnqueue(sink[r]) =>
              /\ forwarded'[r] = forwarded[r]
              /\ sink[r].state # "none" => ~CanCloseOrEnqueue(sink'[r])
         /\ (source[r].status = "open" /\ source'[r].status = "done"
               /\ CanCloseOrEnqueue(sink[r])) =>
              /\ relay'[r] = "finished"
              /\ IF sink[r].queue = << >>
                   THEN sink'[r].state = "closed"
                   ELSE sink'[r].state = "readable" /\ sink'[r].closeRequested
         /\ relay[r] = "finished" => relay'[r] = "finished"
         /\ sink[r].state = "closed" => sink'[r].state = "closed"]_vars

C18_Witness ==
  \E r \in RequestIds :
    /\ source[r].status = "done" /\ relay[r] = "finished"
    /\ Len(source[r].emitted) = 2
    /\ source[r].emitted[1] = << >> /\ source[r].emitted[2] # << >>
    /\ forwarded[r] = << encode(source[r].emitted[2]) >>
    /\ sink[r].state = "closed" /\ ~sink[r].cancelled
    /\ delivered[r] = forwarded[r]

\* -------------------------------------------------------------------- C19
\* C19: whenever the relay receives a fragment on a sink the caller has not
\* cancelled, every fragment it received before has already been forwarded
\* or skipped as empty, and when it goes back to awaiting the next fragment
\* the one just received has been forwarded or skipped too: no fragment is
\* pulled while another is still held back.
Handled(emitted, sent) ==
  sent = [i \in 1..Len(NonEmpty(emitted)) |-> encode(NonEmpty(emitted)[i])]

C19_ForwardBeforeNextPull ==
  [][\A r \in RequestIds :
       (Len(source'[r].emitted) > Len(source[r].emitted) /\ ~sink[r].cancelled) =>
         /\ Handled(source[r].emitted, forwarded[r])
         /\ relay'[r] = "awaiting" => Handled(source'[r].emitted, forwarded'[r])]_vars

C19_Witness ==
  \E r \in RequestIds :
    /\ relay[r] = "awaiting" /\ ~sink[r].cancelled
    /\ Len(source[r].emitted) = 2
    /\ source[r].emitted[1] # << >> /\ source[r].emitted[2] # << >>
    /\ source[r].emitted[1] # source[r].emitted[2]
    /\ Len(forwarded[r]) = 2
    /\ Len(delivered[r]) = 1

\* -------------------------------------------------------------------- C20
\* C20: what is sent is one part that holds a text and nothing else, no
\* role.  The text begins with the content of the final turn; it goes on
\* with the fixed suffix and ends there when the final turn is the user's,
\* and it is the content alone, without the suffix, when the final turn is
\* the assistant's.
EndsWith(text, tail) ==
  Len(text) >= Len(tail) /\ SubSeq(text, Len(text) - Len(tail) + 1, Len(text)) = tail

C20_SuffixIffUser ==
  \A r \in RequestIds :
    sends[r] # << >> =>
      LET final == Last(Messages(r))
          parts == sends[r][1]
      IN  /\ Len(sends[r]) = 1
          /\ Len(parts) = 1
          /\ DOMAIN parts[1] = {"text"}
          /\ SubSeq(parts[1].text, 1, Len(final.content)) = final.content
          /\ EndsWith(parts[1].text, Suffix) <=> final.role = "user"
          /\ Len(parts[1].text) =
               Len(final.content) + (IF final.role = "user" THEN Len(Suffix) ELSE 0)

C20_Witness ==
  \E r \in RequestIds :
    /\ sends[r] # << >>
    /\ Len(Messages(r)) = 2
    /\ Messages(r)[1].role = "user" /\ Messages(r)[2].role = "assistant"
    /\ sends[r][1][1].text = Messages(r)[2].content
    /\ pc[r] = "returned"

TurnConforms(turn) ==
  /\ turn.t = "object"
  /\ turn.role.t = "string" /\ turn.role.str \in {"user", "assistant"}
  /\ turn.content.t = "string"

InvalidTurnAt(r) ==
  IF Parsable(r) /\ req[r].json.t = "object" /\ req[r].json.messages.t = "array"
    THEN {i \in DOMAIN req[r].json.messages.arr : ~TurnConforms(req[r].json.messages.arr[i])}
    ELSE {}

C22_NoPartialRecovery ==
  \A r \in RequestIds :
    (InvalidTurnAt(r) # {} /\ pc[r] \notin {"idle", "json"}) =>
      /\ pc[r] = "returned"
      /\ Len(responses[r]) = 1
      /\ responses[r][1].status = 422
      /\ responses[r][1].body.content # << >>
      /\ chats[r] = << >> /\ sends[r] = << >> /\ logged[r] = << >>
      /\ source[r] = NoSource /\ sink[r] = NoSink

\* the invalid turn is not the final one, and the final one is a user's
C22_Witness ==
  \E r \in RequestIds :
    /\ InvalidTurnAt(r) = {1}
    /\ Len(req[r].json.messages.arr) = 2
    /\ req[r].json.messages.arr[2].role = JStr("user")
    /\ req[r].json.shadcn \in {JAbsent, JBool(TRUE), JBool(FALSE)}
    /\ responses[r] # << >> /\ responses[r][1].status = 422

\* -------------------------------------------------------------------- C23
\* C23: while the relay awaits a fragment, a step in which the provider does
\* nothing (no fragment, no end, no failure) leaves the request pending: the
\* relay still awaits, the call of POST and its one response are as they
\* were, nothing is logged, the sink is not errored and is closed only if
\* the caller cancelled it, and the request is not released.
C23_NoTimeout ==
  [][\A r \in RequestIds :
       (relay[r] = "awaiting" /\ source'[r] = source[r]) =>
         /\ relay'[r] = "awaiting"
         /\ pc'[r] = pc[r] /\ req'[r] = req[r]
         /\ responses'[r] = responses[r]
         /\ logged'[r] = logged[r] /\ escaped'[r] = escaped[r]
         /\ sink'[r].state # "errored"
         /\ sink'[r].state = "closed" => sink'[r].cancelled]_vars

\* pending with nothing received yet, while the caller has nothing to read
C23_Witness ==
  \E r \in RequestIds :
    /\ relay[r] = "awaiting" /\ source[r] = [status |-> "open", emitted |-> << >>]
    /\ pc[r] = "returned" /\ responses[r] = << StreamResponse >>
    /\ sink[r].state = "readable" /\ sink[r].queue = << >> /\ ~sink[r].closeRequested
    /\ ~ENABLED Read(r)

\* -------------------------------------------------------------------- C24
\* C24: no step changes the catalog or the provider client handle, and no
\* step taken while a request is being handled changes the body that was
\* received for it, its turns included.
C24_Frame ==
  [][/\ shadcnDocs' = shadcnDocs
     /\ genAI' = genAI
     /\ \A r \in RequestIds :
          (pc[r] # "idle" /\ pc'[r] # "idle") => req'[r] = req[r]]_vars

\* a failing request, handled after a request that used the catalog and at
\* least one more
C24_Witness ==
  \E r \in RequestIds :
    /\ anchor # None /\ anchor.shadcn /\ anchor.between
    /\ pc[r] = "returned" /\ logged[r] # << >>
    /\ Len(Messages(r)) = 2 /\ Messages(r)[1] # Messages(r)[2]
    /\ shadcnDocs = DefaultCatalog
    /\ genAI.apiKey = "key"

\* -------------------------------------------------------------------- C25
\* C25: a request whose messages is the empty array passes validation; once
\* past the validator it has opened one session, has sent nothing to the
\* provider, has logged the failure of reading the final turn and is
\* answered the generic 500, without a stream.
EmptyConversation(r) ==
  /\ Parsable(r) /\ req[r].json.t = "object"
  /\ req[r].json.shadcn.t \in {"undefined", "boolean"}
  /\ req[r].json.messages = JArr(<< >>)

C25_EmptyMessages ==
  \A r \in RequestIds :
    EmptyConversation(r) =>
      /\ safeParse(req[r].json).success
      /\ pc[r] \notin {"idle", "json"} =>
           /\ pc[r] = "returned"
           /\ Len(chats[r]) = 1
           /\ sends[r] = << >>
           /\ Len(logged[r]) = 1 /\ logged[r][1].name = "TypeError"
           /\ Len(responses[r]) = 1
           /\ responses[r][1].status = 500
           /\ responses[r][1].body =
                [type |-> "json",
                 content |-> << [key |-> "error", value |-> "Failed to generate response"] >>]
           /\ source[r] = NoSource /\ sink[r] = NoSink /\ escaped[r] = None

C25_Witness ==
  \E r \in RequestIds :
    /\ EmptyConversation(r) /\ req[r].json.shadcn = JBool(TRUE)
    /\ genAI.apiKey = "key"
    /\ Len(chats[r]) = 1 /\ sends[r] = << >>
    /\ responses[r] # << >> /\ responses[r][1].status = 500

\* -------------------------------------------------------------------- C26
\* C26: from the moment the streamed call has returned a fragment sequence,
\* and before any fragment of it is relayed, the request has its one
\* response and that response is the 200; whatever the sequence does next,
\* the responses of the request stay as they are, no 500 among them, and
\* nothing is logged.
C26_Committed200 ==
  /\ [](\A r \in RequestIds :
          source[r].status # "none" =>
            /\ Len(responses[r]) = 1 /\ responses[r][1].status = 200
            /\ pc[r] = "returned"
            /\ logged[r] = << >>)
  /\ [][\A r \in RequestIds :
          (source[r].status # "none" /\ pc'[r] # "idle") =>
            (responses'[r] = responses[r] /\ logged'[r] = logged[r])]_vars

\* the sequence failed before its first fragment, and the response is the 200
C26_Witness ==
  \E r \in RequestIds :
    /\ source[r] = [status |-> "failed", emitted |-> << >>]
    /\ Len(responses[r]) = 1 /\ responses[r][1].status = 200
    /\ sink[r].state = "errored"

\* -------------------------------------------------------------------- C27
\* C27: in every state, whether the stream is running, has ended, has failed
\* or was cancelled, the bytes the caller has received so far are the first
\* bytes of the UTF-8 encoding of the texts the provider has emitted so far,
\* in their order (empty texts add nothing).
C27_DeliveredPrefix ==
  \A r \in RequestIds :
    LET got == Concat(delivered[r])
        emittedBytes == encode(Concat(source[r].emitted))
    IN  /\ Len(got) <= Len(emittedBytes)
        /\ got = SubSeq(emittedBytes, 1, Len(got))

\* a proper prefix after a failure past the first fragment, the caller
\* having cancelled: the second fragment never reached the caller
C27_Witness ==
  \E r \in RequestIds :
    /\ source[r].status = "failed" /\ sink[r].cancelled
    /\ Len(NonEmpty(source[r].emitted)) = 2
    /\ source[r].emitted[1] # source[r].emitted[2]
    /\ Len(delivered[r]) = 1
    /\ Concat(delivered[r]) # encode(Concat(source[r].emitted))

LinesWith(text, line) == {i \in DOMAIN text : text[i].text = line}

FirstBaseRule == BaseRules[2].text
LastBaseRule == BaseRules[Len(BaseRules) - 1].text
ClosingText == ClosingRule[2].text
IntroText == CatalogIntro[2].text

C29_SectionOrder ==
  \A r \in RequestIds :
    chats[r] # << >> =>
      LET text == Seed(r)
          closing == LinesWith(text, ClosingText)
          base == LinesWith(text, LastBaseRule)
          intro == LinesWith(text, IntroText)
          opens == LinesWith(text, "<component>")
          ends == LinesWith(text, "</component>")
      IN  /\ text[1].text = FirstBaseRule
          /\ Cardinality(closing) = 1 /\ Cardinality(base) = 1
          /\ \A c \in closing :
               /\ \A i \in DOMAIN text : i > c => text[i].text = ""
               /\ \A i \in base \cup intro \cup opens \cup ends : i < c
          /\ \A b \in base : \A i \in intro \cup opens \cup ends : b < i
          /\ IF Flag(r)
               THEN /\ Cardinality(intro) = 1
                    /\ Cardinality(opens) = Len(shadcnDocs)
                    /\ Cardinality(ends) = Len(shadcnDocs)
                    /\ \A i \in intro : \A j \in opens : i < j
               ELSE intro = {} /\ opens = {} /\ ends = {}

C29_Witness ==
  \E r \in RequestIds :
    /\ chats[r] # << >> /\ Flag(r) /\ Len(shadcnDocs) = 2
    /\ Cardinality(LinesWith(Seed(r), "</component>")) = 2
    /\ Seed(r)[Len(Seed(r))].text = ClosingText

====
